---- MODULE Spec2Model ----
(***************************************************************************)
(* Spaced-repetition review of the dailyword bot.                          *)
(*                                                                         *)
(* The persisted table user_words holds one row per word served to a user. *)
(* A review pass exists twice in the repository: the serverless handler    *)
(* api/cron/review.js ("cron") and runReviewJob of index.js ("job").       *)
(* Both select the rows with next_review <= now and, row by row, look up   *)
(* the user and the word, send the review prompt, compute the next         *)
(* interval and write interval and next_review back.                       *)
(*                                                                         *)
(* Time is counted in days: DAY stands for 24 * 60 * 60 * 1000 ms.  The    *)
(* ISO strings of the cron variant and the millisecond numbers of the job  *)
(* variant both denote the instant exactly, so an instant is an integer.   *)
(***************************************************************************)
EXTENDS Integers, Sequences, FiniteSets, TLC

\* ---------------------------------------------------------------- bounds
MaxClock == 3
MaxItems == 2
MaxFaults == 1
MaxReplies == 2

\* ------------------------------------------------------------- constants
DAY == 1
INITIAL_INTERVAL == 2
DEFAULT_INTERVAL == 2
MIN_INTERVAL == 1
GROWTH_X10 == 25
MAX_WORDS_PER_DAY == 3

\* a nullable column: NULL is the empty tuple, the number v is <<v>>
Null == << >>
Num(v) == <<v>>
Str(t) == <<t>>
NoCount == -1
Passes == {"p1", "p2"}
Texts == {"t1"}
Chats == {"c1", "c2"}
\* the text after "/setwords ", as its digits
Args == {<< >>, <<1>>, <<2>>, <<3>>, <<4>>, <<1, 5>>}
StoredIntervals == {Null} \cup {Num(v) : v \in (-3..6) \cup {13}}

VARIABLES
  clock,          \* Date.now(), in days
  TELEGRAM_TOKEN, \* whether process.env.TELEGRAM_TOKEN is set
  user_words,     \* the user_words table: sequence of rows, id = position
  pc,             \* pc[p]: "idle", "loop" (inside for (const row of due)), "done"
  variant,        \* variant[p]: which implementation runs pass p
  now,            \* now[p]: the `now` of the pass
  qres,           \* qres[p]: outcome of the due-set query
  due,            \* due[p]: the rows returned by the due-set query
  idx,            \* idx[p]: position of the next row of due[p]
  trace,          \* trace[p]: what the pass did for each row so far
  res,            \* res[p]: what the pass answered to its caller
  users,          \* the users table: words_per_day of each registered chat
  user_stats,     \* the user_stats table: streak record of each chat, if any
  cmd,            \* the last command the message router handled
  reply,          \* the last learner message the message handler handled
  leftover,       \* the due rows the last interrupted pass had not reached
  faults,         \* number of failures injected so far
  http,           \* the last answer of the webhook or of the daily, evening or weekly endpoint
  run,            \* what the last daily serve did for each chat
  hpc,            \* hpc[h]: position of /start handler h
  isNewUser,      \* isNewUser[h]: the `isNewUser` of /start handler h
  chat_ids,       \* chat_ids[c]: number of users rows whose chat_id is c
  notified        \* number of 'New user started' messages sent to the admin

vars == <<clock, TELEGRAM_TOKEN, user_words, pc, variant, now, qres, due, idx,
          trace, res, users, user_stats, cmd, reply, leftover, faults,
          http, run, hpc, isNewUser, chat_ids, notified>>

\* --------------------------------------------------------- pure helpers
MathMax(a, b) == IF a >= b THEN a ELSE b

\* Math.round(num / den) for den > 0: floor(x + 0.5), halves round up
MathRound(num, den) == (2 * num + den) \div (2 * den)

\* `v ?? d`: only null is replaced, 0 is kept
OrDefault_NullOnly(v, d) == IF v = Null THEN d ELSE v[1]

\* JavaScript `v || d`
OrDefault(v, d) == IF v = Null \/ v = Num(0) THEN d ELSE v[1]

\* Math.round((row.interval || 2) * 2.5) with a wrong operator: division
nextInterval_Divide(interval) ==
  MathMax(MIN_INTERVAL, MathRound(OrDefault(interval, DEFAULT_INTERVAL) * 10, GROWTH_X10))

\* Math.floor instead of Math.round
nextInterval_Floor(interval) ==
  MathMax(MIN_INTERVAL, (OrDefault(interval, DEFAULT_INTERVAL) * GROWTH_X10) \div 10)

\* without the Math.max(1, ...) floor
nextInterval_NoMax(interval) ==
  MathRound(OrDefault(interval, DEFAULT_INTERVAL) * GROWTH_X10, 10)

\* Math.round(Math.max(1, row.interval || 2) * 2.5): floored before multiplying
nextInterval_ClampFirst(interval) ==
  MathRound(MathMax(MIN_INTERVAL, OrDefault(interval, DEFAULT_INTERVAL)) * GROWTH_X10, 10)

\* (row.interval || 1): the default is 1 instead of 2
nextInterval_DefaultOne(interval) ==
  MathMax(MIN_INTERVAL, MathRound(OrDefault(interval, 1) * GROWTH_X10, 10))

\* Math.max(1, Math.round((row.interval || 2) * 2.5))
nextInterval(interval) ==
  MathMax(MIN_INTERVAL, MathRound(OrDefault(interval, DEFAULT_INTERVAL) * GROWTH_X10, 10))

\* .lte('next_review', now) with a strict comparison
IsDue_Strict(next_review, t) == next_review < t

\* .lte('next_review', now)
IsDue(next_review, t) == next_review <= t

\* `if (!user) continue;` : the word is not checked
Skips_UserOnly(user, word) == user = "null"

\* `if (!user || !word) continue;`
Skips(user, word) == user = "null" \/ word = "null"

\* the rows a due-set query at time t returns, in table order
SelectDue(t) ==
  SelectSeq([i \in 1..Len(user_words) |->
               [id |-> i,
                interval |-> user_words[i].interval,
                next_review |-> user_words[i].next_review]],
            LAMBDA r : IsDue(r.next_review, t))

\* the orders in which a due-set query at time t may return its rows: the
\* query has no .order(), so the database is free to return any of them
SelectDueAnyOrder(t) ==
  LET rows == SelectDue(t)
      n == Len(rows)
  IN {[k \in 1..n |-> rows[f[k]]] :
        f \in {g \in [1..n -> 1..n] : \A a, b \in 1..n : g[a] = g[b] => a = b}}

NoPayload == [interval |-> NoCount, next_review |-> NoCount]
\* what a pass hands to its caller: the HTTP status (0: no HTTP response),
\* the message, and the counts the message carries (NoCount: not in it)
Response(status, body, processed) ==
  [status |-> status, body |-> body, processed |-> processed, failures |-> NoCount]

NoRes == Response(0, "none", NoCount)

\* the user_stats row ensureUser inserts
NewStat == [streak |-> 0, last_completed |-> Null]

\* the tables after /start from chat c1
RegisteredUsers == [c \in Chats |-> IF c = "c1" THEN Num(1) ELSE Null]
RegisteredStats == [c \in Chats |-> IF c = "c1" THEN NewStat ELSE Null]

\* no command handled yet
NoCmd == [kind |-> "none", chat |-> "c1", arg |-> << >>, anchored |-> TRUE]

\* no learner message handled yet
NoReply == [id |-> 0, n |-> 0]

\* the /start handlers that may be in flight for chat "c1"
Handlers == {"h1", "h2"}

\* an answer of an HTTP endpoint: its status, whether the handler issued a
\* database call and whether it sent a message
Answer(endpoint, status, queried, sent) ==
  [endpoint |-> endpoint, status |-> status, queried |-> queried, sent |-> sent]

NoHttp == Answer("none", 0, FALSE, FALSE)

\* no daily serve has run
NoRun == [c \in Chats |-> [wpd |-> 0, from |-> 0, to |-> 0, made |-> {}, threw |-> FALSE]]

\* the state of the endpoints and of the /start handlers at start-up
EndpointInit ==
  /\ http = NoHttp
  /\ run = NoRun
  /\ hpc = [h \in Handlers |-> "idle"]
  /\ isNewUser = [h \in Handlers |-> FALSE]
  /\ chat_ids = [c \in Chats |-> IF users[c] = Null THEN 0 ELSE 1]
  /\ notified = 0

\* next_review counted from a week before the pass
ReviewBase_WeekBefore(p) == now[p] - 7 * DAY

\* the instant next_review is counted from: Date.now() in the cron
\* variant, the pass's `now` in the job variant
ReviewBase(p) == IF variant[p] = "cron" THEN clock ELSE now[p]

\* ----------------------------------------------------------- outcomes
\* The outcome of the four awaited calls of one loop iteration.  A call
\* that is not reached has outcome "none".
Threw(o) == "throw" \in {o.user, o.word, o.send, o.upd}

Outcomes ==
  { o \in [user : {"ok", "null", "throw"},
           word : {"ok", "null", "throw", "none"},
           send : {"ok", "throw", "none"},
           upd  : {"ok", "error", "throw", "none"}] :
      /\ (o.word = "none") <=> (o.user = "throw")
      /\ (o.send = "none") <=>
            (o.user = "throw" \/ o.word \in {"throw", "none"} \/ Skips(o.user, o.word))
      /\ (o.upd = "none") <=> (o.send # "ok") }

FaultsOf(o) ==
  Cardinality({f \in {"user", "word", "send", "upd"} : o[f] \in {"null", "error", "throw"}})

\* -------------------------------------------------------------- Init
PassInit ==
  /\ pc = [p \in Passes |-> "idle"]
  /\ variant = [p \in Passes |-> "cron"]
  /\ now = [p \in Passes |-> 0]
  /\ qres = [p \in Passes |-> "none"]
  /\ due = [p \in Passes |-> << >>]
  /\ idx = [p \in Passes |-> 1]
  /\ trace = [p \in Passes |-> << >>]
  /\ res = [p \in Passes |-> NoRes]
  /\ users = RegisteredUsers
  /\ user_stats = RegisteredStats
  /\ cmd = NoCmd
  /\ reply = NoReply
  /\ leftover = {}
  /\ faults = 0

Init ==
  /\ clock = 0
  /\ TELEGRAM_TOKEN \in BOOLEAN
  /\ user_words = << >>
  /\ PassInit
  /\ EndpointInit

\* a table that already holds one row, whose interval is any stored value
InitStored ==
  /\ clock = 0
  /\ TELEGRAM_TOKEN \in BOOLEAN
  /\ \E i \in StoredIntervals :
       user_words = << [served_at |-> 0, next_review |-> 0, interval |-> i,
                        correct_count |-> Null, last_response |-> Null,
                        user_id |-> "c1", served_index |-> 1] >>
  /\ PassInit
  /\ EndpointInit

\* an empty table and a failure budget that is already used up
InitOverlap ==
  /\ clock = 0
  /\ TELEGRAM_TOKEN \in BOOLEAN
  /\ user_words = << >>
  /\ pc = [p \in Passes |-> "idle"]
  /\ variant = [p \in Passes |-> "cron"]
  /\ now = [p \in Passes |-> 0]
  /\ qres = [p \in Passes |-> "none"]
  /\ due = [p \in Passes |-> << >>]
  /\ idx = [p \in Passes |-> 1]
  /\ trace = [p \in Passes |-> << >>]
  /\ res = [p \in Passes |-> NoRes]
  /\ users = RegisteredUsers
  /\ user_stats = RegisteredStats
  /\ cmd = NoCmd
  /\ reply = NoReply
  /\ leftover = {}
  /\ faults = MaxFaults
  /\ EndpointInit

\* a table that holds one due row whose interval is short enough for the
\* row to come due again while the clock runs
InitLive ==
  /\ clock = 0
  /\ TELEGRAM_TOKEN \in BOOLEAN
  /\ \E i \in {Num(1), Num(INITIAL_INTERVAL)} :
       user_words = << [served_at |-> 0, next_review |-> 0, interval |-> i,
                        correct_count |-> Null, last_response |-> Null,
                        user_id |-> "c1", served_index |-> 1] >>
  /\ PassInit
  /\ EndpointInit

\* a table that holds one due row of short interval, and a failure budget
\* that is already used up
InitRepeat ==
  /\ clock = 0
  /\ TELEGRAM_TOKEN \in BOOLEAN
  /\ \E i \in {Num(1), Num(INITIAL_INTERVAL)} :
       user_words = << [served_at |-> 0, next_review |-> 0, interval |-> i,
                        correct_count |-> Null, last_response |-> Null,
                        user_id |-> "c1", served_index |-> 1] >>
  /\ pc = [p \in Passes |-> "idle"]
  /\ variant = [p \in Passes |-> "cron"]
  /\ now = [p \in Passes |-> 0]
  /\ qres = [p \in Passes |-> "none"]
  /\ due = [p \in Passes |-> << >>]
  /\ idx = [p \in Passes |-> 1]
  /\ trace = [p \in Passes |-> << >>]
  /\ res = [p \in Passes |-> NoRes]
  /\ users = RegisteredUsers
  /\ user_stats = RegisteredStats
  /\ cmd = NoCmd
  /\ reply = NoReply
  /\ leftover = {}
  /\ faults = MaxFaults
  /\ EndpointInit

\* an empty table and a failure budget that is already used up
InitReply ==
  /\ clock = 0
  /\ TELEGRAM_TOKEN \in BOOLEAN
  /\ user_words = << >>
  /\ pc = [p \in Passes |-> "idle"]
  /\ variant = [p \in Passes |-> "cron"]
  /\ now = [p \in Passes |-> 0]
  /\ qres = [p \in Passes |-> "none"]
  /\ due = [p \in Passes |-> << >>]
  /\ idx = [p \in Passes |-> 1]
  /\ trace = [p \in Passes |-> << >>]
  /\ res = [p \in Passes |-> NoRes]
  /\ users = RegisteredUsers
  /\ user_stats = RegisteredStats
  /\ cmd = NoCmd
  /\ reply = NoReply
  /\ leftover = {}
  /\ faults = MaxFaults
  /\ EndpointInit

\* chat "c1" is registered and was served a word today
InitServed ==
  /\ clock = 0
  /\ TELEGRAM_TOKEN \in BOOLEAN
  /\ user_words = << [served_at |-> 0, next_review |-> 2 * DAY,
                      interval |-> Num(INITIAL_INTERVAL),
                      correct_count |-> Null, last_response |-> Null,
                      user_id |-> "c1", served_index |-> 1] >>
  /\ PassInit
  /\ EndpointInit

\* both chats are registered, each with a words_per_day that /setwords
\* can have stored, and no word was served
InitDaily ==
  /\ clock = 0
  /\ TELEGRAM_TOKEN \in BOOLEAN
  /\ user_words = << >>
  /\ pc = [p \in Passes |-> "idle"]
  /\ variant = [p \in Passes |-> "cron"]
  /\ now = [p \in Passes |-> 0]
  /\ qres = [p \in Passes |-> "none"]
  /\ due = [p \in Passes |-> << >>]
  /\ idx = [p \in Passes |-> 1]
  /\ trace = [p \in Passes |-> << >>]
  /\ res = [p \in Passes |-> NoRes]
  /\ users \in [Chats -> {Num(w) : w \in 1..MAX_WORDS_PER_DAY}]
  /\ user_stats = [c \in Chats |-> NewStat]
  /\ cmd = NoCmd
  /\ reply = NoReply
  /\ leftover = {}
  /\ faults = 0
  /\ EndpointInit

\* no chat has registered and no word was served
InitUser ==
  /\ clock = 0
  /\ TELEGRAM_TOKEN \in BOOLEAN
  /\ user_words = << >>
  /\ pc = [p \in Passes |-> "idle"]
  /\ variant = [p \in Passes |-> "cron"]
  /\ now = [p \in Passes |-> 0]
  /\ qres = [p \in Passes |-> "none"]
  /\ due = [p \in Passes |-> << >>]
  /\ idx = [p \in Passes |-> 1]
  /\ trace = [p \in Passes |-> << >>]
  /\ res = [p \in Passes |-> NoRes]
  /\ users = [c \in Chats |-> Null]
  /\ user_stats = [c \in Chats |-> Null]
  /\ cmd = NoCmd
  /\ reply = NoReply
  /\ leftover = {}
  /\ faults = 0
  /\ EndpointInit

\* ------------------------------------------------------------ actions
Tick ==
  /\ clock < MaxClock
  /\ clock' = clock + 1
  /\ UNCHANGED <<TELEGRAM_TOKEN, http, run, hpc, isNewUser, chat_ids, notified, users, cmd, user_stats, user_words, pc, variant,
                 now, qres, due, idx,
                 trace, res, reply, leftover, faults>>

\* saveWordAndAssignToUsers with interval: 0 in the inserted row
saveWordAndAssignToUsers_ZeroInterval ==
  /\ TELEGRAM_TOKEN
  /\ Len(user_words) < MaxItems
  /\ \E c \in Chats :
       /\ users[c] # Null
       /\ user_words' = Append(user_words,
             [user_id |-> c,
              served_at |-> clock,
              next_review |-> clock + 2 * DAY,
              interval |-> Num(0),
              correct_count |-> Null,
              last_response |-> Null,
              served_index |-> 1])
  /\ UNCHANGED <<clock, TELEGRAM_TOKEN, http, run, hpc, isNewUser, chat_ids, notified, users, cmd, user_stats, pc, variant, now,
                 qres, due, idx,
                 trace, res, reply, leftover, faults>>

\* saveWordAndAssignToUsers with next_review two days before now
saveWordAndAssignToUsers_Past ==
  /\ TELEGRAM_TOKEN
  /\ Len(user_words) < MaxItems
  /\ \E c \in Chats :
       /\ users[c] # Null
       /\ user_words' = Append(user_words,
             [user_id |-> c,
              served_at |-> clock,
              next_review |-> clock - 2 * DAY,
              interval |-> Num(INITIAL_INTERVAL),
              correct_count |-> Null,
              last_response |-> Null,
              served_index |-> 1])
  /\ UNCHANGED <<clock, TELEGRAM_TOKEN, http, run, hpc, isNewUser, chat_ids, notified, users, cmd, user_stats, pc, variant, now,
                 qres, due, idx,
                 trace, res, reply, leftover, faults>>

\* saveWordAndAssignToUsers for one user: the word is inserted, then the
\* user_words row
saveWordAndAssignToUsers ==
  /\ TELEGRAM_TOKEN
  /\ Len(user_words) < MaxItems
  /\ \E c \in Chats :
       /\ users[c] # Null
       /\ user_words' = Append(user_words,
             [user_id |-> c,
              served_at |-> clock,
              next_review |-> clock + 2 * DAY,
              interval |-> Num(INITIAL_INTERVAL),
              correct_count |-> Null,
              last_response |-> Null,
              served_index |-> 1])
  /\ UNCHANGED <<clock, TELEGRAM_TOKEN, http, run, hpc, isNewUser, chat_ids, notified, users, cmd, user_stats, pc, variant, now,
                 qres, due, idx,
                 trace, res, reply, leftover, faults>>

\* the handler of api/cron/review.js up to the loop
StartCron(p) ==
  /\ pc[p] \in {"idle", "done", "killed"}
  /\ variant' = [variant EXCEPT ![p] = "cron"]
  /\ idx' = [idx EXCEPT ![p] = 1]
  /\ trace' = [trace EXCEPT ![p] = << >>]
  /\ IF ~TELEGRAM_TOKEN
       THEN /\ res' = [res EXCEPT ![p] =
                 Response(500, "Bot not configured", NoCount)]
            /\ pc' = [pc EXCEPT ![p] = "done"]
            /\ qres' = [qres EXCEPT ![p] = "none"]
            /\ due' = [due EXCEPT ![p] = << >>]
            /\ UNCHANGED <<now, faults>>
       ELSE /\ now' = [now EXCEPT ![p] = clock]
            /\ \E q \in {"rows", "null", "throw"} :
                 /\ q # "rows" => faults < MaxFaults
                 /\ qres' = [qres EXCEPT ![p] = q]
                 /\ faults' = IF q = "rows" THEN faults ELSE faults + 1
                 /\ due' = [due EXCEPT ![p] = IF q = "rows" THEN SelectDue(clock) ELSE << >>]
                 /\ pc' = [pc EXCEPT ![p] = IF q = "rows" THEN "loop" ELSE "done"]
                 /\ res' = [res EXCEPT ![p] =
                      CASE q = "rows" -> NoRes
                        [] q = "null" -> Response(200, "No reviews due", NoCount)
                        [] q = "throw" -> Response(500, "error", NoCount)]
  /\ UNCHANGED <<clock, TELEGRAM_TOKEN, http, run, hpc, isNewUser, chat_ids, notified, users, cmd, user_stats, user_words, reply, leftover>>

\* runReviewJob of index.js up to the loop; the process exits at start-up
\* when TELEGRAM_TOKEN is missing
StartJob(p) ==
  /\ pc[p] \in {"idle", "done", "killed"}
  /\ TELEGRAM_TOKEN
  /\ variant' = [variant EXCEPT ![p] = "job"]
  /\ idx' = [idx EXCEPT ![p] = 1]
  /\ trace' = [trace EXCEPT ![p] = << >>]
  /\ now' = [now EXCEPT ![p] = clock]
  /\ \E q \in {"rows", "null", "throw"} :
       /\ q # "rows" => faults < MaxFaults
       /\ qres' = [qres EXCEPT ![p] = q]
       /\ faults' = IF q = "rows" THEN faults ELSE faults + 1
       /\ due' = [due EXCEPT ![p] = IF q = "rows" THEN SelectDue(clock) ELSE << >>]
       /\ pc' = [pc EXCEPT ![p] = IF q = "rows" THEN "loop" ELSE "done"]
       /\ res' = [res EXCEPT ![p] =
            CASE q = "rows" -> NoRes
              [] q = "null" -> Response(0, "resolved", NoCount)
              [] q = "throw" -> Response(0, "rejected", NoCount)]
  /\ UNCHANGED <<clock, TELEGRAM_TOKEN, http, run, hpc, isNewUser, chat_ids, notified, users, cmd, user_stats, user_words, reply, leftover>>

\* the loop body with growth only for a row that was answered correctly:
\* the select list carries correct_count and the factor is applied to the
\* rows that have one
Entry_ByCorrectness(p, o) ==
  LET row == due[p][idx[p]]
      n == IF user_words[row.id].correct_count # Null
             THEN nextInterval(row.interval)
             ELSE OrDefault(row.interval, DEFAULT_INTERVAL)
  IN [id |-> row.id,
      user |-> o.user, word |-> o.word, send |-> o.send, upd |-> o.upd,
      prompted |-> (o.send = "ok"),
      written |-> (o.upd = "ok"),
      warned |-> Threw(o),
      payload |-> IF o.upd = "none" THEN NoPayload
                  ELSE [interval |-> n, next_review |-> ReviewBase(p) + n * DAY]]

\* the handler of api/cron/review.js up to the loop, with the rows in the
\* order the database returned them
StartCronAnyOrder(p) ==
  /\ pc[p] \in {"idle", "done", "killed"}
  /\ variant' = [variant EXCEPT ![p] = "cron"]
  /\ idx' = [idx EXCEPT ![p] = 1]
  /\ trace' = [trace EXCEPT ![p] = << >>]
  /\ IF ~TELEGRAM_TOKEN
       THEN /\ res' = [res EXCEPT ![p] =
                 Response(500, "Bot not configured", NoCount)]
            /\ pc' = [pc EXCEPT ![p] = "done"]
            /\ qres' = [qres EXCEPT ![p] = "none"]
            /\ due' = [due EXCEPT ![p] = << >>]
            /\ UNCHANGED <<now, faults>>
       ELSE /\ now' = [now EXCEPT ![p] = clock]
            /\ \E q \in {"rows", "null", "throw"} :
                 /\ q # "rows" => faults < MaxFaults
                 /\ qres' = [qres EXCEPT ![p] = q]
                 /\ faults' = IF q = "rows" THEN faults ELSE faults + 1
                 /\ \E d \in SelectDueAnyOrder(clock) :
                      due' = [due EXCEPT ![p] = IF q = "rows" THEN d ELSE << >>]
                 /\ pc' = [pc EXCEPT ![p] = IF q = "rows" THEN "loop" ELSE "done"]
                 /\ res' = [res EXCEPT ![p] =
                      CASE q = "rows" -> NoRes
                        [] q = "null" -> Response(200, "No reviews due", NoCount)
                        [] q = "throw" -> Response(500, "error", NoCount)]
  /\ UNCHANGED <<clock, TELEGRAM_TOKEN, http, run, hpc, isNewUser, chat_ids, notified, users, cmd, user_stats, user_words, reply, leftover>>

\* runReviewJob of index.js up to the loop, with the rows in the order the
\* database returned them
StartJobAnyOrder(p) ==
  /\ pc[p] \in {"idle", "done", "killed"}
  /\ TELEGRAM_TOKEN
  /\ variant' = [variant EXCEPT ![p] = "job"]
  /\ idx' = [idx EXCEPT ![p] = 1]
  /\ trace' = [trace EXCEPT ![p] = << >>]
  /\ now' = [now EXCEPT ![p] = clock]
  /\ \E q \in {"rows", "null", "throw"} :
       /\ q # "rows" => faults < MaxFaults
       /\ qres' = [qres EXCEPT ![p] = q]
       /\ faults' = IF q = "rows" THEN faults ELSE faults + 1
       /\ \E d \in SelectDueAnyOrder(clock) :
            due' = [due EXCEPT ![p] = IF q = "rows" THEN d ELSE << >>]
       /\ pc' = [pc EXCEPT ![p] = IF q = "rows" THEN "loop" ELSE "done"]
       /\ res' = [res EXCEPT ![p] =
            CASE q = "rows" -> NoRes
              [] q = "null" -> Response(0, "resolved", NoCount)
              [] q = "throw" -> Response(0, "rejected", NoCount)]
  /\ UNCHANGED <<clock, TELEGRAM_TOKEN, http, run, hpc, isNewUser, chat_ids, notified, users, cmd, user_stats, user_words, reply, leftover>>

\* what one loop iteration with outcome o does, as a trace entry
Entry(p, o) ==
  LET row == due[p][idx[p]]
      n == nextInterval(row.interval)
  IN [id |-> row.id,
      user |-> o.user, word |-> o.word, send |-> o.send, upd |-> o.upd,
      prompted |-> (o.send = "ok"),
      written |-> (o.upd = "ok"),
      warned |-> Threw(o),
      payload |-> IF o.upd = "none" THEN NoPayload
                  ELSE [interval |-> n, next_review |-> ReviewBase(p) + n * DAY]]

\* one loop iteration without the inner try/catch: a throw leaves the loop
\* and reaches the caller
Iteration_NoCatch(p, o) ==
  LET e == Entry(p, o)
  IN /\ trace' = [trace EXCEPT ![p] = Append(@, e)]
     /\ user_words' = IF e.written
                        THEN [user_words EXCEPT ![e.id].interval = Num(e.payload.interval),
                                                ![e.id].next_review = e.payload.next_review]
                        ELSE user_words
     /\ idx' = [idx EXCEPT ![p] = @ + 1]
     /\ pc' = [pc EXCEPT ![p] = IF Threw(o) THEN "done" ELSE @]
     /\ res' = [res EXCEPT ![p] =
          IF Threw(o)
            THEN IF variant[p] = "cron"
                   THEN Response(500, "error", NoCount)
                   ELSE Response(0, "rejected", NoCount)
            ELSE @]

\* the update without .eq('id', row.id): every row is written
Iteration_NoEq(p, o) ==
  LET e == Entry(p, o)
  IN /\ trace' = [trace EXCEPT ![p] = Append(@, e)]
     /\ user_words' = IF e.written
                        THEN [i \in DOMAIN user_words |->
                                [user_words[i] EXCEPT !.interval = Num(e.payload.interval),
                                                      !.next_review = e.payload.next_review]]
                        ELSE user_words
     /\ idx' = [idx EXCEPT ![p] = @ + 1]
     /\ UNCHANGED <<pc, res>>

\* the loop body with .delete() in place of .update(): the last row goes
Iteration_Delete(p, o) ==
  LET e == Entry(p, o)
  IN /\ trace' = [trace EXCEPT ![p] = Append(@, e)]
     /\ user_words' = IF e.written
                        THEN SubSeq(user_words, 1, Len(user_words) - 1)
                        ELSE user_words
     /\ idx' = [idx EXCEPT ![p] = @ + 1]
     /\ UNCHANGED <<pc, res>>

\* the loop body without the update of interval and next_review
Iteration_NoUpdate(p, o) ==
  LET e == Entry(p, o)
  IN /\ trace' = [trace EXCEPT ![p] = Append(@, e)]
     /\ user_words' = user_words
     /\ idx' = [idx EXCEPT ![p] = @ + 1]
     /\ UNCHANGED <<pc, res>>

\* one iteration of `for (const row of due) { try { ... } catch (e) { warn } }`
Iteration(p, o) ==
  LET e == Entry(p, o)
  IN /\ trace' = [trace EXCEPT ![p] = Append(@, e)]
     /\ user_words' = IF e.written
                        THEN [user_words EXCEPT ![e.id].interval = Num(e.payload.interval),
                                                ![e.id].next_review = e.payload.next_review]
                        ELSE user_words
     /\ idx' = [idx EXCEPT ![p] = @ + 1]
     /\ UNCHANGED <<pc, res>>

ProcessItem(p) ==
  /\ pc[p] = "loop"
  /\ idx[p] <= Len(due[p])
  /\ \E o \in Outcomes :
       /\ faults + FaultsOf(o) <= MaxFaults
       /\ faults' = faults + FaultsOf(o)
       /\ Iteration(p, o)
  /\ leftover' = {IF r.id = due[p][idx[p]].id THEN [r EXCEPT !.handled = TRUE] ELSE r :
                    r \in leftover}
  /\ UNCHANGED <<clock, TELEGRAM_TOKEN, http, run, hpc, isNewUser, chat_ids, notified, users, cmd, user_stats, variant, now, qres, due, reply>>

\* the end of a pass that treats an empty due set as an error
Finish_EmptyFails(p) ==
  /\ pc[p] = "loop"
  /\ idx[p] > Len(due[p])
  /\ pc' = [pc EXCEPT ![p] = "done"]
  /\ res' = [res EXCEPT ![p] =
       IF due[p] = << >>
         THEN IF variant[p] = "cron"
                THEN Response(500, "error", NoCount)
                ELSE Response(0, "rejected", NoCount)
         ELSE IF variant[p] = "cron"
                THEN Response(200, "Review job completed", Len(due[p]))
                ELSE Response(0, "resolved", NoCount)]
  /\ UNCHANGED <<clock, TELEGRAM_TOKEN, http, run, hpc, isNewUser, chat_ids, notified, users, cmd, user_stats, user_words, variant,
                 now, qres, due, idx,
                 trace, reply, leftover, faults>>

\* after the loop: the response of the cron handler, the return of the job
Finish(p) ==
  /\ pc[p] = "loop"
  /\ idx[p] > Len(due[p])
  /\ pc' = [pc EXCEPT ![p] = "done"]
  /\ res' = [res EXCEPT ![p] =
       IF variant[p] = "cron"
         THEN Response(200, "Review job completed", Len(due[p]))
         ELSE Response(0, "resolved", NoCount)]
  /\ UNCHANGED <<clock, TELEGRAM_TOKEN, http, run, hpc, isNewUser, chat_ids, notified, users, cmd, user_stats, user_words, variant,
                 now, qres, due, idx,
                 trace, reply, leftover, faults>>

\* the host ends the pass inside its loop (function time limit, process
\* restart): nothing more of it runs
Interrupt(p) ==
  /\ pc[p] = "loop"
  /\ faults < MaxFaults
  /\ faults' = faults + 1
  /\ pc' = [pc EXCEPT ![p] = "killed"]
  /\ leftover' = {[id |-> due[p][k].id, handled |-> FALSE] :
                    k \in {j \in DOMAIN due[p] : j >= idx[p]}}
  /\ UNCHANGED <<clock, TELEGRAM_TOKEN, http, run, hpc, isNewUser, chat_ids, notified, users, cmd, user_stats, user_words, variant,
                 now, qres, due, idx,
                 trace, res, reply>>

\* the rows the message handler selects for user c: served today, in
\* serving order, with the columns id, word_id, last_response, served_at;
\* correct_count is not among the selected columns, so it is undefined on
\* these rows
Pending(c) ==
  SelectSeq([i \in 1..Len(user_words) |->
               [id |-> i,
                user_id |-> user_words[i].user_id,
                served_at |-> user_words[i].served_at,
                last_response |-> user_words[i].last_response,
                correct_count |-> Null]],
            LAMBDA r : r.user_id = c /\ r.served_at >= clock)

\* (lastPending.correct_count || 0) - 1
CorrectCountWrite_Minus(row) == OrDefault(row.correct_count, 0) - 1

\* (lastPending.correct_count || 0) + 1
CorrectCountWrite(row) == OrDefault(row.correct_count, 0) + 1

\* a stored correct_count as a number
CountOf(v) == IF v = Null THEN 0 ELSE v[1]

\* updateUserStreak with the test `gap < 2 days`
updateUserStreak_Strict(c) ==
  LET stat == user_stats[c]
  IN IF stat = Null
       THEN [streak |-> 1, last_completed |-> Num(clock)]
       ELSE IF stat.last_completed # Null /\ clock - stat.last_completed[1] < 2 * DAY
              THEN [streak |-> stat.streak + 1, last_completed |-> Num(clock)]
              ELSE [streak |-> 1, last_completed |-> Num(clock)]

\* updateUserStreak(userId): the user_stats row of c after the call
updateUserStreak(c) ==
  LET stat == user_stats[c]
  IN IF stat = Null
       THEN [streak |-> 1, last_completed |-> Num(clock)]
       ELSE IF stat.last_completed # Null /\ clock - stat.last_completed[1] <= 2 * DAY
              THEN [streak |-> stat.streak + 1, last_completed |-> Num(clock)]
              ELSE [streak |-> 1, last_completed |-> Num(clock)]

\* the message handler with the streak update after every reply, short or
\* long
Reply_ShortStreak ==
  /\ TELEGRAM_TOKEN
  /\ \E c \in Chats, short \in BOOLEAN, match \in BOOLEAN, text \in Texts :
       /\ users[c] # Null
       /\ Pending(c) # << >>
       /\ LET last == Pending(c)[Len(Pending(c))]
              targets == IF short THEN {last.id}
                         ELSE {Pending(c)[k].id : k \in {j \in DOMAIN Pending(c) :
                                                       Pending(c)[j].last_response = Null}}
          IN \E failed \in SUBSET targets :
               /\ faults + Cardinality(failed) <= MaxFaults
               /\ faults' = faults + Cardinality(failed)
               /\ user_words' =
                    [i \in DOMAIN user_words |->
                       IF i \in targets \ failed
                         THEN IF short /\ match
                                THEN [user_words[i] EXCEPT
                                        !.correct_count = Num(CorrectCountWrite(last))]
                                ELSE [user_words[i] EXCEPT !.last_response = Str(text)]
                         ELSE user_words[i]]
               /\ (short /\ match /\ reply.id = last.id) => reply.n < MaxReplies
               /\ reply' = IF short /\ match /\ failed = {}
                              THEN [id |-> last.id,
                                    n |-> IF reply.id = last.id THEN reply.n + 1 ELSE 1]
                              ELSE reply
       /\ updateUserStreak(c).streak <= MaxReplies
       /\ user_stats' = [user_stats EXCEPT ![c] = updateUserStreak(c)]
  /\ http' = Answer("webhook", 200, TRUE, TRUE)
  /\ UNCHANGED <<clock, TELEGRAM_TOKEN, run, hpc, isNewUser, chat_ids, notified, users, cmd, pc, variant, now, qres, due, idx,
                 trace, res, leftover>>

\* the message handler for a text that is no command, from a registered
\* user who was served today; `failed` are the rows whose update fails
Reply ==
  /\ TELEGRAM_TOKEN
  /\ \E c \in Chats, short \in BOOLEAN, match \in BOOLEAN, text \in Texts :
       /\ users[c] # Null
       /\ Pending(c) # << >>
       /\ LET last == Pending(c)[Len(Pending(c))]
              targets == IF short THEN {last.id}
                         ELSE {Pending(c)[k].id : k \in {j \in DOMAIN Pending(c) :
                                                       Pending(c)[j].last_response = Null}}
          IN \E failed \in SUBSET targets :
               /\ faults + Cardinality(failed) <= MaxFaults
               /\ faults' = faults + Cardinality(failed)
               /\ user_words' =
                    [i \in DOMAIN user_words |->
                       IF i \in targets \ failed
                         THEN IF short /\ match
                                THEN [user_words[i] EXCEPT
                                        !.correct_count = Num(CorrectCountWrite(last))]
                                ELSE [user_words[i] EXCEPT !.last_response = Str(text)]
                         ELSE user_words[i]]
               /\ (short /\ match /\ reply.id = last.id) => reply.n < MaxReplies
               /\ reply' = IF short /\ match /\ failed = {}
                              THEN [id |-> last.id,
                                    n |-> IF reply.id = last.id THEN reply.n + 1 ELSE 1]
                              ELSE reply
       /\ IF short
            THEN UNCHANGED user_stats
            ELSE /\ updateUserStreak(c).streak <= MaxReplies
                 /\ user_stats' = [user_stats EXCEPT ![c] = updateUserStreak(c)]
  /\ http' = Answer("webhook", 200, TRUE, TRUE)
  /\ UNCHANGED <<clock, TELEGRAM_TOKEN, run, hpc, isNewUser, chat_ids, notified, users, cmd, pc, variant, now, qres, due, idx,
                 trace, res, leftover>>

\* ensureUser(chatId): a chat that is not registered yet gets a users row
\* and, unless that insert fails, a user_stats row
ensureUser(c, statsOk) ==
  IF users[c] # Null
    THEN UNCHANGED <<users, user_stats, chat_ids>>
    ELSE /\ users' = [users EXCEPT ![c] = Num(1)]
         /\ chat_ids' = [chat_ids EXCEPT ![c] = @ + 1]
         /\ user_stats' = IF statsOk THEN [user_stats EXCEPT ![c] = NewStat]
                          ELSE user_stats

\* the /start command from chat c
Start(c) ==
  /\ TELEGRAM_TOKEN
  /\ \E statsOk \in BOOLEAN :
       /\ ~statsOk => (users[c] = Null /\ faults < MaxFaults)
       /\ faults' = IF statsOk THEN faults ELSE faults + 1
       /\ ensureUser(c, statsOk)
  /\ http' = Answer("webhook", 200, TRUE, TRUE)
  /\ cmd' = [kind |-> "start", chat |-> c, arg |-> << >>, anchored |-> TRUE]
  /\ UNCHANGED <<clock, TELEGRAM_TOKEN, run, hpc, isNewUser, notified, user_words, pc, variant, now, qres, due, idx,
                 trace, res, reply, leftover>>

\* The /start branch of the webhook for chat "c1", one awaited call at a
\* time, so that two invocations can interleave.
\* `const { data: existingUser } = await ...maybeSingle(); isNewUser = !existingUser`:
\* maybeSingle gives data only when exactly one row matches
StartLookup(h) ==
  /\ TELEGRAM_TOKEN
  /\ hpc[h] \in {"idle", "done"}
  /\ hpc' = [hpc EXCEPT ![h] = "ensure"]
  /\ isNewUser' = [isNewUser EXCEPT ![h] = (chat_ids["c1"] # 1)]
  /\ UNCHANGED <<clock, TELEGRAM_TOKEN, http, run, chat_ids, notified, users, cmd,
                 user_stats, user_words, pc, variant, now, qres, due, idx, trace, res,
                 reply, leftover, faults>>

\* the select of ensureUser: the row is returned, or there is none and the
\* insert follows, or maybeSingle reports an error for several rows and
\* ensureUser throws into the catch of the branch
StartEnsureSelect(h) ==
  /\ hpc[h] = "ensure"
  /\ hpc' = [hpc EXCEPT ![h] = CASE chat_ids["c1"] = 0 -> "insert"
                                 [] chat_ids["c1"] = 1 -> "welcome"
                                 [] OTHER -> "done"]
  /\ http' = IF chat_ids["c1"] > 1 THEN Answer("webhook", 200, TRUE, TRUE) ELSE http
  /\ UNCHANGED <<clock, TELEGRAM_TOKEN, run, isNewUser, chat_ids, notified, users, cmd,
                 user_stats, user_words, pc, variant, now, qres, due, idx, trace, res,
                 reply, leftover, faults>>

\* the insert of ensureUser.  The schema is not part of the repository:
\* when a row for the chat exists already, the insert adds a second one
\* (no unique constraint on chat_id) or fails (unique constraint) and
\* ensureUser throws into the catch of the branch
StartEnsureInsert(h) ==
  /\ hpc[h] = "insert"
  /\ \E unique \in BOOLEAN :
       IF unique /\ chat_ids["c1"] > 0
         THEN /\ hpc' = [hpc EXCEPT ![h] = "done"]
              /\ http' = Answer("webhook", 200, TRUE, TRUE)
              /\ UNCHANGED <<chat_ids, users, user_stats>>
         ELSE /\ hpc' = [hpc EXCEPT ![h] = "welcome"]
              /\ chat_ids' = [chat_ids EXCEPT !["c1"] = @ + 1]
              /\ users' = [users EXCEPT !["c1"] = Num(1)]
              /\ user_stats' = [user_stats EXCEPT !["c1"] = NewStat]
              /\ UNCHANGED http
  /\ UNCHANGED <<clock, TELEGRAM_TOKEN, run, isNewUser, notified, cmd,
                 user_words, pc, variant, now, qres, due, idx, trace, res,
                 reply, leftover, faults>>

\* the welcome message and `if (isNewUser && ADMIN_CHAT_ID) sendMessage(ADMIN_CHAT_ID, ...)`
StartWelcome(h) ==
  /\ hpc[h] = "welcome"
  /\ hpc' = [hpc EXCEPT ![h] = "done"]
  /\ notified' = IF isNewUser[h] THEN notified + 1 ELSE notified
  /\ http' = Answer("webhook", 200, TRUE, TRUE)
  /\ UNCHANGED <<clock, TELEGRAM_TOKEN, run, isNewUser, chat_ids, users, cmd,
                 user_stats, user_words, pc, variant, now, qres, due, idx, trace, res,
                 reply, leftover, faults>>

\* whether "/setwords " followed by arg matches /^\/setwords (1|2|3)$/ of
\* the webhook (anchored) or /\/setwords (1|2|3)/ of the polling bot
SetWordsMatch(anchored, arg) ==
  /\ Len(arg) >= 1
  /\ arg[1] \in {1, 2, 3}
  /\ anchored => Len(arg) = 1

\* the /setwords command from chat c
SetWords(c) ==
  /\ TELEGRAM_TOKEN
  /\ \E arg \in Args, anchored \in BOOLEAN :
       /\ users' = IF SetWordsMatch(anchored, arg) /\ users[c] # Null
                     THEN [users EXCEPT ![c] = Num(arg[1])]
                     ELSE users
       /\ http' = IF anchored
                    THEN Answer("webhook", 200, SetWordsMatch(anchored, arg),
                                SetWordsMatch(anchored, arg))
                    ELSE http
       /\ cmd' = [kind |-> "setwords", chat |-> c, arg |-> arg, anchored |-> anchored]
  /\ UNCHANGED <<clock, TELEGRAM_TOKEN, run, hpc, isNewUser, chat_ids, notified, user_stats, user_words, pc, variant, now, qres,
                 due, idx, trace, res, reply, leftover, faults>>

\* words_per_day of chat c as the daily serve reads it: 0 for a chat
\* without a users row
WordsPerDay(c) == IF users[c] = Null THEN 0 ELSE users[c][1]

\* what serveWordsToUser can do for each chat: `made` are the loop indexes
\* i + 1 for which a word was generated and its user_words row inserted,
\* `threw` whether a call of it threw
ServeOutcomes ==
  {out \in [Chats -> [made : SUBSET (1..MAX_WORDS_PER_DAY), threw : BOOLEAN]] :
     \A c \in Chats :
       /\ out[c].made \subseteq 1..WordsPerDay(c)
       /\ users[c] = Null => ~out[c].threw}

\* the failures an outcome of serveWordsToUser stands for: the throw that
\* ended it, or else one for every word that was not generated or stored
ServeFaults(out, c) ==
  IF out[c].threw THEN 1 ELSE WordsPerDay(c) - Cardinality(out[c].made)

\* the user_words rows serveWordsToUser inserts for chat c, in loop order
ServedRows(c, made) ==
  LET is == SelectSeq([i \in 1..MAX_WORDS_PER_DAY |-> i], LAMBDA i : i \in made)
  IN [k \in 1..Len(is) |->
        [user_id |-> c,
         served_at |-> clock,
         next_review |-> clock + 2 * DAY,
         interval |-> Num(INITIAL_INTERVAL),
         correct_count |-> Null,
         last_response |-> Null,
         served_index |-> is[k]]]

\* the orders in which `select('*')` on users may return the chats
UserOrders == {<<"c1", "c2">>, <<"c2", "c1">>}

\* the daily serve without the try/catch around serveWordsToUser: a throw
\* for the first user ends the run
DailyServe_NoCatch(order, out) ==
  LET first == ServedRows(order[1], out[order[1]].made)
      second == IF out[order[1]].threw THEN << >>
                ELSE ServedRows(order[2], out[order[2]].made)
      n == Len(user_words)
  IN /\ user_words' = user_words \o first \o second
     /\ run' = [c \in Chats |->
                 [wpd |-> WordsPerDay(c),
                  from |-> IF c = order[1] THEN n ELSE n + Len(first),
                  to |-> IF c = order[1] THEN n + Len(first)
                         ELSE n + Len(first) + Len(second),
                  made |-> out[c].made,
                  threw |-> out[c].threw]]

\* `for (const u of users) { try { await serveWordsToUser(u) } catch ... }`:
\* the table and the record of the run after the loop
DailyServe(order, out) ==
  LET first == ServedRows(order[1], out[order[1]].made)
      second == ServedRows(order[2], out[order[2]].made)
      n == Len(user_words)
  IN /\ user_words' = user_words \o first \o second
     /\ run' = [c \in Chats |->
                 [wpd |-> WordsPerDay(c),
                  from |-> IF c = order[1] THEN n ELSE n + Len(first),
                  to |-> IF c = order[1] THEN n + Len(first)
                         ELSE n + Len(first) + Len(second),
                  made |-> out[c].made,
                  threw |-> out[c].threw]]

\* the handler of api/cron/daily.js
Daily ==
  /\ IF ~TELEGRAM_TOKEN
       THEN /\ http' = Answer("daily", 500, FALSE, FALSE)
            /\ UNCHANGED <<user_words, run, faults>>
       ELSE \E q \in {"rows", "null", "throw"} :
              IF q = "rows"
                THEN \E order \in UserOrders, out \in ServeOutcomes :
                       /\ faults + ServeFaults(out, "c1") + ServeFaults(out, "c2") <= MaxFaults
                       /\ faults' = faults + ServeFaults(out, "c1") + ServeFaults(out, "c2")
                       /\ Len(user_words) + Cardinality(out["c1"].made)
                            + Cardinality(out["c2"].made) <= MaxItems
                       /\ DailyServe(order, out)
                       /\ http' = Answer("daily", 200, TRUE,
                                         \E c \in Chats : users[c] # Null /\ ~out[c].threw)
                ELSE /\ faults < MaxFaults
                     /\ faults' = faults + 1
                     /\ http' = IF q = "null" THEN Answer("daily", 200, TRUE, FALSE)
                                ELSE Answer("daily", 500, TRUE, FALSE)
                     /\ UNCHANGED <<user_words, run>>
  /\ UNCHANGED <<clock, TELEGRAM_TOKEN, hpc, isNewUser, chat_ids, notified, users, cmd,
                 user_stats, pc, variant, now, qres, due, idx, trace, res, reply, leftover>>

\* the handler of api/cron/evening.js: a message to every user; a send
\* that fails is caught per user
Evening ==
  /\ IF ~TELEGRAM_TOKEN
       THEN /\ http' = Answer("evening", 500, FALSE, FALSE)
            /\ UNCHANGED faults
       ELSE \E q \in {"rows", "null", "throw"} :
              /\ q # "rows" => faults < MaxFaults
              /\ faults' = IF q = "rows" THEN faults ELSE faults + 1
              /\ http' = CASE q = "rows" ->
                                Answer("evening", 200, TRUE, \E c \in Chats : users[c] # Null)
                           [] q = "null" -> Answer("evening", 200, TRUE, FALSE)
                           [] q = "throw" -> Answer("evening", 500, TRUE, FALSE)
  /\ UNCHANGED <<clock, TELEGRAM_TOKEN, run, hpc, isNewUser, chat_ids, notified, users, cmd,
                 user_stats, user_words, pc, variant, now, qres, due, idx, trace, res,
                 reply, leftover>>

\* the handler of api/cron/weekly.js: a summary to every user who was
\* served a word in the last seven days
Weekly ==
  /\ IF ~TELEGRAM_TOKEN
       THEN /\ http' = Answer("weekly", 500, FALSE, FALSE)
            /\ UNCHANGED faults
       ELSE \E q \in {"rows", "null", "throw"} :
              /\ q # "rows" => faults < MaxFaults
              /\ faults' = IF q = "rows" THEN faults ELSE faults + 1
              /\ http' = CASE q = "rows" ->
                                Answer("weekly", 200, TRUE,
                                       \E i \in DOMAIN user_words :
                                         user_words[i].served_at >= clock - 7 * DAY)
                           [] q = "null" -> Answer("weekly", 200, TRUE, FALSE)
                           [] q = "throw" -> Answer("weekly", 500, TRUE, FALSE)
  /\ UNCHANGED <<clock, TELEGRAM_TOKEN, run, hpc, isNewUser, chat_ids, notified, users, cmd,
                 user_stats, user_words, pc, variant, now, qres, due, idx, trace, res,
                 reply, leftover>>

\* the requests the webhook answers without routing them to a command or
\* message handler that writes: another method than POST, a body that is
\* no update, an update of a type that is ignored, an update without a
\* message or without a chat, a text that no branch handles, and the
\* commands that only read
Unrouted ==
  {"GET", "invalid", "callback_query", "no message", "no chat", "unhandled",
   "/help", "/today", "/progress"}

\* the webhook with the bot check after the lookup of the user
WebhookNotConfigured_Late ==
  /\ ~TELEGRAM_TOKEN
  /\ http' = Answer("webhook", 500, TRUE, FALSE)
  /\ UNCHANGED <<clock, TELEGRAM_TOKEN, run, hpc, isNewUser, chat_ids, notified, users, cmd,
                 user_stats, user_words, pc, variant, now, qres, due, idx, trace, res,
                 reply, leftover, faults>>

\* the webhook without a bot: 500 before anything else
WebhookNotConfigured ==
  /\ ~TELEGRAM_TOKEN
  /\ http' = Answer("webhook", 500, FALSE, FALSE)
  /\ UNCHANGED <<clock, TELEGRAM_TOKEN, run, hpc, isNewUser, chat_ids, notified, users, cmd,
                 user_stats, user_words, pc, variant, now, qres, due, idx, trace, res,
                 reply, leftover, faults>>

\* the webhook for a request that changes no table
WebhookUnrouted ==
  /\ TELEGRAM_TOKEN
  /\ \E u \in Unrouted :
       http' = Answer("webhook", 200, u \in {"/today", "/progress"},
                      u \in {"/help", "/today", "/progress"})
  /\ UNCHANGED <<clock, TELEGRAM_TOKEN, run, hpc, isNewUser, chat_ids, notified, users, cmd,
                 user_stats, user_words, pc, variant, now, qres, due, idx, trace, res,
                 reply, leftover, faults>>

\* the webhook with a rethrow in place of the catch around the routing
WebhookThrew_Rethrow ==
  /\ TELEGRAM_TOKEN
  /\ faults < MaxFaults
  /\ faults' = faults + 1
  /\ http' = Answer("webhook", 500, TRUE, FALSE)
  /\ UNCHANGED <<clock, TELEGRAM_TOKEN, run, hpc, isNewUser, chat_ids, notified, users, cmd,
                 user_stats, user_words, pc, variant, now, qres, due, idx, trace, res,
                 reply, leftover>>

\* the webhook for an update whose handler throws at its first database
\* call or message: the catch around the routing logs it and the answer is
\* 200 all the same
WebhookThrew ==
  /\ TELEGRAM_TOKEN
  /\ faults < MaxFaults
  /\ faults' = faults + 1
  /\ http' = Answer("webhook", 200, TRUE, FALSE)
  /\ UNCHANGED <<clock, TELEGRAM_TOKEN, run, hpc, isNewUser, chat_ids, notified, users, cmd,
                 user_stats, user_words, pc, variant, now, qres, due, idx, trace, res,
                 reply, leftover>>

\* time, serving and one review pass at a time
NextPass ==
  \/ Tick
  \/ saveWordAndAssignToUsers
  \/ StartCron("p1")
  \/ StartJob("p1")
  \/ ProcessItem("p1")
  \/ Finish("p1")

\* one pass at a time: the hourly trigger starts a pass when the previous
\* one has answered or was ended by the host
Next ==
  \/ Tick
  \/ saveWordAndAssignToUsers
  \/ StartCron("p1")
  \/ StartJob("p1")
  \/ ProcessItem("p1")
  \/ Finish("p1")
  \/ Interrupt("p1")

Spec == Init /\ [][Next]_vars

\* one pass at a time and the learner's messages in between; no call fails
NextReply ==
  \/ Tick
  \/ saveWordAndAssignToUsers
  \/ StartCron("p1")
  \/ StartJob("p1")
  \/ ProcessItem("p1")
  \/ Finish("p1")
  \/ Reply

SpecReply == InitReply /\ [][NextReply]_vars

\* passes over a table that already holds a row
SpecStored == InitStored /\ [][NextPass]_vars

\* two passes that may overlap; none of their calls fails
NextOverlap ==
  \/ Tick
  \/ saveWordAndAssignToUsers
  \/ \E p \in Passes : StartCron(p)
  \/ \E p \in Passes : StartJob(p)
  \/ \E p \in Passes : ProcessItem(p)
  \/ \E p \in Passes : Finish(p)

SpecOverlap == InitOverlap /\ [][NextOverlap]_vars

\* two passes, overlapping or one after the other, over the stored row;
\* none of their calls fails
NextRepeat ==
  \/ Tick
  \/ \E p \in Passes : StartCron(p)
  \/ \E p \in Passes : StartJob(p)
  \/ \E p \in Passes : ProcessItem(p)
  \/ \E p \in Passes : Finish(p)

SpecRepeat == InitRepeat /\ [][NextRepeat]_vars

\* one pass at a time, its rows in any order, with calls that may fail
NextAnyOrder ==
  \/ Tick
  \/ saveWordAndAssignToUsers
  \/ StartCronAnyOrder("p1")
  \/ StartJobAnyOrder("p1")
  \/ ProcessItem("p1")
  \/ Finish("p1")

SpecAnyOrder == Init /\ [][NextAnyOrder]_vars

\* two passes, overlapping or one after the other, over the stored row,
\* with calls that may fail
SpecRetry == InitLive /\ [][NextRepeat]_vars

\* the requests the webhook receives
NextWebhook ==
  \/ WebhookNotConfigured
  \/ WebhookUnrouted
  \/ WebhookThrew
  \/ \E c \in Chats : Start(c)
  \/ \E c \in Chats : SetWords(c)
  \/ Reply

SpecWebhook == InitServed /\ [][NextWebhook]_vars

\* the daily serve, day after day
NextDaily ==
  \/ Tick
  \/ Daily

SpecDaily == InitDaily /\ [][NextDaily]_vars

\* the HTTP endpoints: the four cron handlers and the webhook
NextEndpoints ==
  \/ Daily
  \/ Evening
  \/ Weekly
  \/ WebhookNotConfigured
  \/ WebhookUnrouted
  \/ StartCron("p1")
  \/ ProcessItem("p1")
  \/ Finish("p1")

SpecEndpoints == InitLive /\ [][NextEndpoints]_vars

\* /start messages of one chat, handled by invocations that may overlap
NextStart ==
  \/ Tick
  \/ \E h \in Handlers : StartLookup(h)
  \/ \E h \in Handlers : StartEnsureSelect(h)
  \/ \E h \in Handlers : StartEnsureInsert(h)
  \/ \E h \in Handlers : StartWelcome(h)

SpecStart == InitUser /\ [][NextStart]_vars

\* the commands that write the users table
NextUser ==
  \/ \E c \in Chats : Start(c)
  \/ \E c \in Chats : SetWords(c)

SpecUser == InitUser /\ [][NextUser]_vars

\* registration of one chat, the daily serve and the learner's messages
NextStreak ==
  \/ Tick
  \/ saveWordAndAssignToUsers
  \/ Start("c1")
  \/ Reply

SpecStreak == InitUser /\ [][NextStreak]_vars

\* the passes under the hourly schedule over a table that already holds a
\* row: time advances, a pass is started again and again, and a started
\* pass runs on
SpecLive ==
  /\ InitLive
  /\ [][NextPass]_vars
  /\ WF_vars(Tick)
  /\ WF_vars(StartCron("p1") \/ StartJob("p1"))
  /\ WF_vars(ProcessItem("p1"))
  /\ WF_vars(Finish("p1"))

\* ------------------------------------------------------------- properties
\* pass p executes one loop iteration in this step
IterStep(p) == pc[p] = "loop" /\ idx'[p] = idx[p] + 1

\* pass p runs its due-set query successfully in this step
SelectStep(p) == pc[p] # "loop" /\ pc'[p] = "loop"

\* the row the iteration of this step is about, and what the iteration did
CurRow(p) == due[p][idx[p]]
NewEntry(p) == trace'[p][idx[p]]

IsPosInt(v) == v # Null /\ v[1] >= 1
IsNonPosInt(v) == v # Null /\ v[1] <= 0

Succeeded(r) == r.status = 200 \/ (r.status = 0 /\ r.body = "resolved")
Failed(r) == r.status = 500 \/ (r.status = 0 /\ r.body = "rejected")

DueIds(p) == {due[p][k].id : k \in DOMAIN due[p]}

\* w is x * 2.5 rounded to the nearest integer, halves up, and at least 1
IsRoundedGrowth(x, w) ==
  /\ w >= 1
  /\ 2 * w - 1 <= 5 * x
  /\ 5 * x < 2 * w + 1

\* C1: a review that succeeds on a due item whose stored interval is a
\* positive integer i stores interval = max(1, round(i * 2.5)), halves
\* rounded up: 2 -> 5, 5 -> 13, 13 -> 33.
C1_ReviewWritesRoundedGrowth ==
  [][\A p \in Passes :
       (IterStep(p) /\ NewEntry(p).written /\ IsPosInt(user_words[CurRow(p).id].interval))
         => LET i == user_words[CurRow(p).id].interval[1]
                w == user_words'[CurRow(p).id].interval
            IN /\ w # Null
               /\ IsRoundedGrowth(i, w[1])
               /\ (i = 2 => w[1] = 5)
               /\ (i = 5 => w[1] = 13)
               /\ (i = 13 => w[1] = 33)]_vars

C1_Witness ==
  \E p \in Passes : \E k \in DOMAIN trace[p] :
    /\ trace[p][k].written
    /\ due[p][k].interval = Num(5)
    /\ user_words[due[p][k].id].interval = Num(13)

\* C2: a review that reads a stored interval i >= 1 stores an interval
\* strictly greater than i, so successive reviews of one item store a
\* strictly increasing sequence of intervals.
C2_IntervalStrictlyIncreases ==
  [][\A p \in Passes :
       (IterStep(p) /\ NewEntry(p).written /\ IsPosInt(user_words[CurRow(p).id].interval))
         => /\ user_words'[CurRow(p).id].interval # Null
            /\ user_words'[CurRow(p).id].interval[1] > user_words[CurRow(p).id].interval[1]
            /\ user_words'[CurRow(p).id].interval[1] > CurRow(p).interval[1]]_vars

\* the initial row (next_review 0) is reviewed a second time
C2_Witness ==
  \E p \in Passes : \E k \in DOMAIN trace[p] :
    /\ trace[p][k].written
    /\ due[p][k].id = 1
    /\ due[p][k].next_review > 0
    /\ IsPosInt(due[p][k].interval)
    /\ trace[p][k].payload.interval > due[p][k].interval[1]

\* C3: when sending the prompt for a due item fails, the same pass still
\* writes the item's new interval and next_review.
C3_FailedPromptStillAdvances ==
  \A p \in Passes : \A k \in DOMAIN trace[p] :
    trace[p][k].send = "throw" =>
      /\ trace[p][k].written
      /\ trace[p][k].payload.interval = nextInterval(due[p][k].interval)

\* C4: when the due-set query succeeded, the pass went through every due
\* row in order, whatever failed for an earlier row, and ended with a
\* success result.
C4_PerItemIsolation ==
  \A p \in Passes :
    (pc[p] = "done" /\ qres[p] = "rows") =>
      /\ Len(trace[p]) = Len(due[p])
      /\ \A k \in DOMAIN trace[p] : trace[p][k].id = due[p][k].id
      /\ Succeeded(res[p])

C4_Witness ==
  \E p \in Passes : \E k \in DOMAIN trace[p] :
    /\ pc[p] = "done"
    /\ qres[p] = "rows"
    /\ trace[p][k].warned
    /\ k < Len(trace[p])
    /\ trace[p][k + 1].written

\* C5: when the due-set query fails, the pass processes no row and reports
\* an error, never a success or a processed count.
C5_QueryFailureIsReported ==
  \A p \in Passes :
    (pc[p] = "done" /\ qres[p] \in {"null", "throw"}) =>
      /\ trace[p] = << >>
      /\ Failed(res[p])
      /\ res[p].processed = NoCount

\* C6: a pass over n due rows in which the write of exactly k rows fails
\* reports processed = n and failures = k, and every other row is updated.
WriteFailures(p) == {k \in DOMAIN trace[p] : trace[p][k].upd \in {"error", "throw"}}

C6_ResultCountsFailures ==
  \A p \in Passes :
    (pc[p] = "done" /\ qres[p] = "rows" /\ WriteFailures(p) # {}) =>
      /\ res[p].processed = Len(due[p])
      /\ res[p].failures = Cardinality(WriteFailures(p))
      /\ \A k \in DOMAIN trace[p] : trace[p][k].upd = "ok" => trace[p][k].written

\* C7: a due row whose user or word is not found gets no prompt, keeps its
\* interval and next_review, is not logged as a failure, and the pass goes
\* on with the next row.
C7_OrphanSkipped ==
  [][\A p \in Passes :
       (/\ IterStep(p)
        /\ NewEntry(p).user # "throw"
        /\ NewEntry(p).word # "throw"
        /\ (NewEntry(p).user = "null" \/ NewEntry(p).word = "null"))
         => /\ ~NewEntry(p).prompted
            /\ NewEntry(p).send = "none"
            /\ ~NewEntry(p).written
            /\ ~NewEntry(p).warned
            /\ user_words' = user_words
            /\ pc'[p] = "loop"
            /\ res'[p] = res[p]]_vars

C7_Witness ==
  \E p \in Passes : \E k \in DOMAIN trace[p] :
    /\ trace[p][k].user = "ok"
    /\ trace[p][k].word = "null"
    /\ ~trace[p][k].prompted
    /\ k < Len(trace[p])
    /\ trace[p][k + 1].written

\* C8: the due-set query of a pass at time now returns exactly the rows
\* with next_review <= now and changes no row; the pass prompts for and
\* writes only rows it selected.
C8_SelectsExactlyDue ==
  [][\A p \in Passes :
       /\ SelectStep(p) =>
            /\ {due'[p][k].id : k \in DOMAIN due'[p]} =
                 {i \in DOMAIN user_words : user_words[i].next_review <= now'[p]}
            /\ \A k \in DOMAIN due'[p] :
                 /\ due'[p][k].next_review = user_words[due'[p][k].id].next_review
                 /\ due'[p][k].interval = user_words[due'[p][k].id].interval
            /\ Len(due'[p]) = Cardinality({due'[p][k].id : k \in DOMAIN due'[p]})
            /\ user_words' = user_words
       /\ IterStep(p) =>
            /\ NewEntry(p).id \in DueIds(p)
            /\ CurRow(p).next_review <= now[p]
            /\ \A i \in DOMAIN user_words :
                 user_words'[i] # user_words[i] => i = NewEntry(p).id]_vars

C8_Witness ==
  \E p \in Passes : \E k \in DOMAIN trace[p] :
    /\ trace[p][k].written
    /\ due[p][k].next_review = now[p]
    /\ \E i \in DOMAIN user_words :
         /\ i \notin DueIds(p)
         /\ user_words[i].next_review > now[p]
         /\ user_words[i].interval = Num(INITIAL_INTERVAL)

\* C9: a successful review stores next_review = now + nextInterval days,
\* with the now of the due-set query, also when time advances during the
\* pass.
C9_NextReviewFromPassNow ==
  \A p \in Passes : \A k \in DOMAIN trace[p] :
    trace[p][k].written =>
      trace[p][k].payload.next_review = now[p] + trace[p][k].payload.interval * DAY

\* C10: a review that reads a stored interval of zero or less stores an
\* interval of at least 1.
C10_NonPositiveStoredGivesAtLeastOne ==
  [][\A p \in Passes :
       (IterStep(p) /\ NewEntry(p).written /\ IsNonPosInt(user_words[CurRow(p).id].interval))
         => /\ user_words'[CurRow(p).id].interval # Null
            /\ user_words'[CurRow(p).id].interval[1] >= 1]_vars

C10_Witness ==
  \E p \in Passes : \E k \in DOMAIN trace[p] :
    /\ trace[p][k].written
    /\ due[p][k].interval # Null
    /\ due[p][k].interval[1] < 0
    /\ user_words[due[p][k].id].interval # Null
    /\ user_words[due[p][k].id].interval[1] >= 1

\* C11 as stated: a stored interval of 0 or less is treated as 1 before
\* multiplying, so the review stores what it stores for a stored 1, which is 3.
C11_NonPositiveTreatedAsOne ==
  [][\A p \in Passes :
       (IterStep(p) /\ NewEntry(p).written /\ IsNonPosInt(user_words[CurRow(p).id].interval))
         => user_words'[CurRow(p).id].interval = Num(3)]_vars

\* C11 amended: a stored 0 is replaced by the default 2 before multiplying
\* (the review stores 5); a negative stored interval is multiplied as it is
\* and the result is floored to 1 (the review stores 1).
C11_ZeroAsDefaultNegativeFloored ==
  [][\A p \in Passes :
       (IterStep(p) /\ NewEntry(p).written /\ IsNonPosInt(user_words[CurRow(p).id].interval))
         => user_words'[CurRow(p).id].interval =
              IF user_words[CurRow(p).id].interval[1] = 0
                THEN Num(5) ELSE Num(1)]_vars

C11_Witness ==
  \E p \in Passes : \E k \in DOMAIN trace[p] :
    /\ trace[p][k].written
    /\ due[p][k].interval = Num(-1)
    /\ user_words[due[p][k].id].interval = Num(1)

\* C12 as stated: a row whose stored interval is 0 has interval 1 after one
\* review.
C12_ZeroGivesOne ==
  [][\A p \in Passes :
       (IterStep(p) /\ NewEntry(p).written /\ user_words[CurRow(p).id].interval = Num(0))
         => user_words'[CurRow(p).id].interval = Num(1)]_vars

\* C12 amended: a row whose stored interval is 0 has interval 5 after one
\* review: 0 is replaced by the default 2 and the floor is not what
\* produces the value.
C12_ZeroGivesFive ==
  [][\A p \in Passes :
       (IterStep(p) /\ NewEntry(p).written /\ user_words[CurRow(p).id].interval = Num(0))
         => /\ user_words'[CurRow(p).id].interval = Num(5)
            /\ NewEntry(p).payload.interval > MIN_INTERVAL]_vars

C12_Witness ==
  \E p \in Passes : \E k \in DOMAIN trace[p] :
    /\ trace[p][k].written
    /\ due[p][k].interval = Num(0)
    /\ user_words[due[p][k].id].interval = Num(5)

\* C13: when the stored interval is null or zero the review computes from
\* a current interval of 2, so it stores 5.
C13_AbsentOrZeroDefaultsToTwo ==
  [][\A p \in Passes :
       (/\ IterStep(p)
        /\ NewEntry(p).written
        /\ user_words[CurRow(p).id].interval \in {Null, Num(0)})
         => user_words'[CurRow(p).id].interval = Num(5)]_vars

C13_Witness ==
  \E p \in Passes : \E k \in DOMAIN trace[p] :
    /\ trace[p][k].written
    /\ due[p][k].interval = Null
    /\ trace[p][k].payload.interval = 5
    /\ user_words[due[p][k].id].interval = Num(5)

C15_NextReviewNotBeforeServed ==
  \A i \in DOMAIN user_words : user_words[i].next_review >= user_words[i].served_at

\* a row that got a reply was reviewed later, which moved next_review
C15_Witness ==
  \E i \in DOMAIN user_words :
    /\ user_words[i].last_response # Null
    /\ user_words[i].next_review > user_words[i].served_at + INITIAL_INTERVAL * DAY

\* C16: no step (reply handling, review pass, daily serve) makes the stored
\* correct_count of a row smaller; an absent count is read as 0.
C16_CorrectCountNeverDecreases ==
  [][\A i \in DOMAIN user_words :
       CountOf(user_words'[i].correct_count) >= CountOf(user_words[i].correct_count)]_vars

\* a second correct reply was written for a row that already had a count,
\* and the row was reviewed afterwards
C16_Witness ==
  \E i \in DOMAIN user_words :
    /\ reply = [id |-> i, n |-> 2]
    /\ user_words[i].correct_count = Num(1)
    /\ user_words[i].interval = Num(5)

\* C17: after n correct short replies matched against the same row and
\* written, the stored correct_count of that row is n.
C17_CountEqualsCorrectReplies ==
  reply.id # 0 => CountOf(user_words[reply.id].correct_count) = reply.n

\* both passes selected row i with the same stored interval and both wrote it
BothWrote(i, k1, k2) ==
  /\ trace["p1"][k1].id = i
  /\ trace["p2"][k2].id = i
  /\ trace["p1"][k1].written
  /\ trace["p2"][k2].written
  /\ due["p1"][k1].interval = due["p2"][k2].interval

\* C18: when two overlapping passes selected the same due row with stored
\* interval x and both wrote it, the stored interval is x grown once or
\* twice, the stored next_review is the one of either write, interval >= 1
\* and next_review >= served_at hold, and an iteration changes no row but
\* its own.
C18_OverlapOnlyBumps ==
  /\ [](\A i \in DOMAIN user_words :
         \A k1 \in DOMAIN trace["p1"], k2 \in DOMAIN trace["p2"] :
           BothWrote(i, k1, k2) =>
             LET x == due["p1"][k1].interval[1]
                 w == user_words[i].interval[1]
             IN /\ \/ IsRoundedGrowth(x, w)
                   \/ \E m \in 1..(3 * x + 1) :
                        IsRoundedGrowth(x, m) /\ IsRoundedGrowth(m, w)
                /\ user_words[i].next_review \in
                     {trace["p1"][k1].payload.next_review,
                      trace["p2"][k2].payload.next_review}
                /\ w >= MIN_INTERVAL
                /\ user_words[i].next_review >= user_words[i].served_at)
  /\ [][\A p \in Passes :
          IterStep(p) =>
            \A j \in DOMAIN user_words \ {CurRow(p).id} : user_words'[j] = user_words[j]]_vars

\* both passes wrote the same row from the same selected values, at
\* different instants, and another row exists
C18_Witness ==
  \E i \in DOMAIN user_words :
    \E k1 \in DOMAIN trace["p1"], k2 \in DOMAIN trace["p2"] :
      /\ BothWrote(i, k1, k2)
      /\ trace["p1"][k1].payload.next_review # trace["p2"][k2].payload.next_review
      /\ Len(user_words) > 1

\* C19: when the host ended a pass inside its loop, the rows it had written
\* hold what it wrote, the rows it had not reached are as selected and still
\* due, and the next pass whose query succeeds goes through each of them.
C19_InterruptedPassResumes ==
  /\ pc["p1"] = "killed" =>
       /\ \A k \in DOMAIN trace["p1"] :
            trace["p1"][k].written =>
              /\ user_words[trace["p1"][k].id].interval =
                   Num(trace["p1"][k].payload.interval)
              /\ user_words[trace["p1"][k].id].next_review =
                   trace["p1"][k].payload.next_review
       /\ \A k \in DOMAIN due["p1"] :
            k >= idx["p1"] =>
              /\ user_words[due["p1"][k].id].interval = due["p1"][k].interval
              /\ user_words[due["p1"][k].id].next_review = due["p1"][k].next_review
              /\ IsDue(user_words[due["p1"][k].id].next_review, clock)
  /\ \A r \in leftover : ~r.handled => IsDue(user_words[r.id].next_review, clock)
  /\ (pc["p1"] = "done" /\ qres["p1"] = "rows") => \A r \in leftover : r.handled

\* a pass wrote row 1 and was ended before row 2; the next pass selected
\* row 2 alone, wrote it and answered
C19_Witness ==
  /\ pc["p1"] = "done"
  /\ qres["p1"] = "rows"
  /\ leftover = {[id |-> 2, handled |-> TRUE]}
  /\ Len(trace["p1"]) = 1
  /\ trace["p1"][1].id = 2
  /\ trace["p1"][1].written
  /\ user_words[1].interval = Num(5)

C21_CreatedByServe ==
  [][Len(user_words') # Len(user_words) =>
       /\ Len(user_words') = Len(user_words) + 1
       /\ \A i \in DOMAIN user_words : user_words'[i] = user_words[i]
       /\ LET r == user_words'[Len(user_words')]
          IN /\ r.interval = Num(2)
             /\ r.served_at = clock
             /\ r.next_review = r.served_at + 2 * DAY
             /\ ~IsDue(r.next_review, clock)]_vars

\* a second row was served on a later day, after the first was reviewed
C21_Witness ==
  /\ Len(user_words) = 2
  /\ user_words[1].interval = Num(5)
  /\ user_words[2].served_at = clock
  /\ user_words[2].next_review = clock + 2 * DAY
  /\ clock >= 2

\* C22: no step removes a row of user_words: the ids present stay present
\* under serves, review passes and replies.
C22_RowsNeverDeleted ==
  [][DOMAIN user_words \subseteq DOMAIN user_words']_vars

\* two rows exist, one reviewed by a pass and one that got a reply
C22_Witness ==
  /\ Len(user_words) >= 2
  /\ \E i \in DOMAIN user_words : user_words[i].interval = Num(5)
  /\ \E i \in DOMAIN user_words : user_words[i].last_response # Null

\* C23 as stated: an existing row changes only in an iteration of a review
\* pass.
C23_OnlyPassesWriteRows ==
  [][\A i \in DOMAIN user_words :
       user_words'[i] # user_words[i] => \E p \in Passes : IterStep(p)]_vars

\* C23 amended: interval and next_review of an existing row change only in
\* an iteration of a review pass, which changes nothing else and no other
\* row; the due-set query changes nothing; every other step (the reply
\* handler) changes at most correct_count and last_response.
C23_PassesWriteScheduleRepliesWriteAnswers ==
  [][\A i \in DOMAIN user_words :
       user_words'[i] # user_words[i] =>
         IF \E p \in Passes : IterStep(p)
           THEN /\ \E p \in Passes : IterStep(p) /\ CurRow(p).id = i
                /\ [user_words'[i] EXCEPT !.interval = user_words[i].interval,
                                          !.next_review = user_words[i].next_review]
                     = user_words[i]
           ELSE /\ \A p \in Passes : ~SelectStep(p)
                /\ [user_words'[i] EXCEPT
                      !.correct_count = user_words[i].correct_count,
                      !.last_response = user_words[i].last_response]
                     = user_words[i]]_vars

\* one row carries a correct count and an answer from replies and the
\* schedule of a later review
C23_Witness ==
  \E i \in DOMAIN user_words :
    /\ user_words[i].correct_count = Num(1)
    /\ user_words[i].last_response # Null
    /\ user_words[i].interval = Num(5)

\* C24: a streak update on an existing user_stats row sets last_completed
\* to the current time, and sets streak to 1 when more than two days have
\* passed since last_completed and to streak + 1 otherwise.
C24_StreakResetOrIncrement ==
  [][\A c \in Chats :
       (user_stats[c] # Null /\ user_stats'[c] # user_stats[c]) =>
         LET old == user_stats[c]
             new == user_stats'[c]
         IN /\ new.last_completed = Num(clock)
            /\ IF old.last_completed # Null /\ clock - old.last_completed[1] > 2 * DAY
                 THEN new.streak = 1
                 ELSE new.streak = old.streak + 1]_vars

\* the streak was counted up on a reply exactly two days after the one
\* before
C24_Witness ==
  /\ user_stats["c1"] = [streak |-> 2, last_completed |-> Num(2)]
  /\ Len(user_words) = 2
  /\ user_words[1].served_at = 0
  /\ user_words[2].served_at = 2

\* C25: a user_stats row exists only for a learner who has engaged: it is
\* created by the first streak update, with streak 1, so every row that
\* exists has a last_completed and a streak of at least 1.
C25_StreakRecordCreatedLazily ==
  \A c \in Chats :
    user_stats[c] # Null =>
      /\ user_stats[c].last_completed # Null
      /\ user_stats[c].streak >= 1

\* C26: every stored words_per_day is 1, 2 or 3; it is 1 after registration
\* and changes only by /setwords 1, /setwords 2 or /setwords 3 from the
\* registered chat itself, to that number.
C26_WordsPerDayOneToThree ==
  /\ [](\A c \in Chats : users[c] # Null => users[c][1] \in {1, 2, 3})
  /\ [][\A c \in Chats :
          users'[c] # users[c] =>
            \/ /\ users[c] = Null
               /\ users'[c] = Num(1)
               /\ cmd'.kind = "start"
               /\ cmd'.chat = c
            \/ /\ users[c] # Null
               /\ cmd'.kind = "setwords"
               /\ cmd'.chat = c
               /\ cmd'.arg \in {<<1>>, <<2>>, <<3>>}
               /\ users'[c] = Num(cmd'.arg[1])]_vars

\* the positions of the trace of p whose update was issued for a row read
\* with the stored interval of position k
SameIntervalUpdates(p, k) ==
  {j \in DOMAIN trace[p] :
     /\ trace[p][j].payload # NoPayload
     /\ due[p][j].interval = due[p][k].interval}

\* C27: two due rows of one pass that were read with the same stored
\* interval get the same interval written whatever their correct_count and
\* last_response are, and the same next_review when the pass counts from
\* one pass time (the job variant); in the cron variant next_review is the
\* time of the write plus that interval.
C27_GrowthIgnoresCorrectness ==
  \A p \in Passes : \A k \in DOMAIN trace[p] :
    trace[p][k].payload # NoPayload =>
      /\ \A j \in SameIntervalUpdates(p, k) :
           /\ trace[p][j].payload.interval = trace[p][k].payload.interval
           /\ variant[p] = "job" =>
                trace[p][j].payload.next_review = trace[p][k].payload.next_review
      /\ trace[p][k].payload.next_review - trace[p][k].payload.interval * DAY
           \in now[p]..clock

\* one pass has reviewed two rows of equal interval, one answered correctly
\* and with a recorded response, the other never answered
C27_Witness ==
  /\ variant["p1"] = "job"
  /\ Len(trace["p1"]) = 2
  /\ trace["p1"][1].written /\ trace["p1"][2].written
  /\ due["p1"][1].interval = due["p1"][2].interval
  /\ user_words[1].correct_count = Null /\ user_words[1].last_response = Null
  /\ user_words[2].correct_count = Num(1) /\ user_words[2].last_response # Null
  /\ user_words[1].interval = Num(5) /\ user_words[2].interval = Num(5)

\* position j of pass q read what position k of pass p wrote to the row
ReadsWriteOf(q, j, p, k) ==
  /\ trace[p][k].written
  /\ due[q][j].id = due[p][k].id
  /\ due[q][j].interval = Num(trace[p][k].payload.interval)
  /\ due[q][j].next_review = trace[p][k].payload.next_review

\* C28: two passes that read the same stored interval of a row compute the
\* same interval for it, and a pass that reads what an earlier review wrote
\* computes the growth of the growth: 1 -> 3 -> 8.
C28_PureAndCompounding ==
  \A p \in Passes, q \in Passes :
    \A k \in DOMAIN trace[p], j \in DOMAIN trace[q] :
      (trace[p][k].payload # NoPayload /\ trace[q][j].payload # NoPayload) =>
        /\ due[p][k].interval = due[q][j].interval =>
             trace[p][k].payload.interval = trace[q][j].payload.interval
        /\ (ReadsWriteOf(q, j, p, k) /\ IsPosInt(due[p][k].interval)) =>
             LET i == due[p][k].interval[1]
                 w1 == trace[p][k].payload.interval
                 w2 == trace[q][j].payload.interval
             IN /\ IsRoundedGrowth(i, w1)
                /\ IsRoundedGrowth(w1, w2)
                /\ (i = 1 => w2 = 8)
                /\ (i = 2 => w2 = 13)

\* the row of interval 1 was reviewed by one pass and, when it came due
\* again, by the other, which read 3 and wrote 8
C28_Witness ==
  /\ Len(trace["p1"]) = 1 /\ Len(trace["p2"]) = 1
  /\ due["p1"][1].interval = Num(1)
  /\ ReadsWriteOf("p2", 1, "p1", 1)
  /\ trace["p2"][1].written
  /\ user_words[1].interval = Num(8)

\* the interval row k of the due set of p holds after the pass, from what
\* was selected for it and whether its own update succeeded
IntervalAfterPass(p, k) ==
  IF trace[p][k].written
    THEN Num(MathMax(MIN_INTERVAL, (5 * OrDefault(due[p][k].interval, DEFAULT_INTERVAL) + 1) \div 2))
    ELSE due[p][k].interval

\* C29: after a pass, the stored interval of every row of its due set is
\* given by the interval selected for that row and the outcome of that
\* row's own iteration, whatever the order in which the rows were
\* processed and whatever happened to the other rows.
C29_OrderIndependent ==
  \A p \in Passes :
    (pc[p] = "done" /\ qres[p] = "rows") =>
      \A k \in DOMAIN due[p] :
        user_words[due[p][k].id].interval = IntervalAfterPass(p, k)

\* a finished pass went through two due rows against the table order; the
\* update of the first one failed and the second one was written
C29_Witness ==
  /\ pc["p1"] = "done"
  /\ Len(due["p1"]) = 2
  /\ due["p1"][1].id = 2 /\ due["p1"][2].id = 1
  /\ trace["p1"][1].upd = "error"
  /\ trace["p1"][2].written
  /\ user_words[1].interval = Num(5)
  /\ user_words[2].interval = Num(INITIAL_INTERVAL)

\* pass p takes a step of its own
PassStep(p) == pc'[p] # pc[p] \/ idx'[p] # idx[p] \/ trace'[p] # trace[p]

\* C30: a pass whose query returned no due row ends with a success (200
\* with 0 processed, or a resolved job), has sent no prompt and issued no
\* update, and none of its steps changes the table.
C30_EmptyDueSetIsNoOp ==
  /\ [](\A p \in Passes :
          (qres[p] = "rows" /\ due[p] = << >>) =>
            /\ trace[p] = << >>
            /\ pc[p] = "done" =>
                 /\ Succeeded(res[p])
                 /\ variant[p] = "cron" => res[p].processed = 0)
  /\ [][\A p \in Passes :
          (PassStep(p) /\ qres'[p] = "rows" /\ due'[p] = << >>) =>
            user_words' = user_words]_vars

\* a cron pass over a table that holds rows, none of them due, has
\* answered
C30_Witness ==
  /\ pc["p1"] = "done"
  /\ variant["p1"] = "cron"
  /\ qres["p1"] = "rows"
  /\ due["p1"] = << >>
  /\ Len(user_words) = 2
  /\ res["p1"] = Response(200, "Review job completed", 0)

\* C32: the due rows of a pass are processed in the order in which the
\* table holds them, which is the order of insertion: the row ids of the
\* due list of every pass are increasing.
C32_DueInInsertionOrder ==
  \A p \in Passes :
    \A k \in DOMAIN due[p], j \in DOMAIN due[p] :
      k < j => due[p][k].id < due[p][j].id

\* the rows of the new due list of p that the pass p has just finished
\* had written
SelectedAgain(p) ==
  {k \in DOMAIN due'[p] :
     \E j \in DOMAIN trace[p] : trace[p][j].id = due'[p][k].id /\ trace[p][j].written}

\* C33: with one pass at a time, a review that writes a row leaves its
\* next_review after the pass time and after its previous next_review, so
\* the row is not due at that pass time any more; the next pass selects a
\* row the previous one wrote only at a later time, when the written
\* next_review has been reached.
C33_ReviewedOncePerDueWindow ==
  [][\A p \in Passes :
       /\ (IterStep(p) /\ NewEntry(p).written) =>
            LET id == CurRow(p).id
            IN /\ user_words'[id].next_review > now[p]
               /\ user_words'[id].next_review > user_words[id].next_review
               /\ ~IsDue(user_words'[id].next_review, now[p])
       /\ SelectStep(p) =>
            \A k \in SelectedAgain(p) :
              /\ clock > now[p]
              /\ due'[p][k].next_review = user_words[due'[p][k].id].next_review
              /\ due'[p][k].next_review > now[p]]_vars

\* the row reviewed on day 0 with interval 1 came due on day 3 and was
\* selected and reviewed again by the pass of that day
C33_Witness ==
  /\ now["p1"] = 3
  /\ Len(due["p1"]) = 1
  /\ due["p1"][1].next_review = 3
  /\ due["p1"][1].interval = Num(3)
  /\ Len(trace["p1"]) = 1
  /\ trace["p1"][1].written
  /\ user_words[1].interval = Num(8)
  /\ user_words[1].next_review > 3

\* C34: a row is prompted once between two advances of its schedule: when
\* a pass prompts for a row that another pass has prompted for, the stored
\* next_review has moved forward from what that other pass had selected.
C34_OnePromptPerAdvance ==
  [][\A p \in Passes :
       (IterStep(p) /\ NewEntry(p).prompted) =>
         \A q \in Passes \ {p} : \A j \in DOMAIN trace[q] :
           (trace[q][j].id = CurRow(p).id /\ trace[q][j].prompted) =>
             user_words[CurRow(p).id].next_review > due[q][j].next_review]_vars

\* C38: the streak of a learner goes up by at most 1 per day: a step that
\* raises it is not preceded by a streak update on the same day.
C38_StreakAtMostOncePerDay ==
  [][\A c \in Chats :
       (user_stats[c] # Null /\ user_stats'[c] # Null
          /\ user_stats'[c].streak > user_stats[c].streak) =>
         user_stats[c].last_completed # Num(clock)]_vars

\* the rows a step changes
Changed == {i \in DOMAIN user_words : user_words'[i] # user_words[i]}

\* a step has the effect of a reply of at most three words from c: only
\* the row served last today can change, in correct_count alone or in
\* last_response alone, and no streak changes
ShortReplyEffect(c) ==
  /\ Pending(c) # << >>
  /\ user_stats' = user_stats
  /\ Changed \subseteq {Pending(c)[Len(Pending(c))].id}
  /\ \A i \in Changed :
       \/ /\ user_words'[i] = [user_words[i] EXCEPT !.correct_count = user_words'[i].correct_count]
          /\ user_words'[i].correct_count # Null
       \/ /\ user_words'[i] = [user_words[i] EXCEPT !.last_response = user_words'[i].last_response]
          /\ user_words'[i].last_response # Null

\* a step has the effect of a longer reply from c: only rows of c served
\* today that had no last_response change, in last_response alone, and the
\* streak row of c is updated once
LongReplyEffect(c) ==
  /\ \A i \in Changed :
       /\ user_words[i].user_id = c
       /\ user_words[i].served_at >= clock
       /\ user_words[i].last_response = Null
       /\ user_words'[i].last_response # Null
       /\ user_words'[i] = [user_words[i] EXCEPT !.last_response = user_words'[i].last_response]
  /\ \A d \in Chats \ {c} : user_stats'[d] = user_stats[d]
  /\ user_stats'[c] # Null
  /\ user_stats'[c].last_completed = Num(clock)
  /\ user_stats'[c].streak \in
       {1, IF user_stats[c] = Null THEN 1 ELSE user_stats[c].streak + 1}

C31_WebhookAlways200 ==
  (TELEGRAM_TOKEN /\ http.endpoint = "webhook") => http.status = 200

\* the webhook answered an update whose handler threw before it had sent
\* anything
C31_Witness ==
  /\ TELEGRAM_TOKEN
  /\ http = Answer("webhook", 200, TRUE, FALSE)
  /\ faults > 0

\* the rows the last daily serve inserted for chat c
RunRows(c) == (run[c].from + 1)..run[c].to

\* C39: the rows one daily serve inserts for a learner are at most
\* words_per_day many, their served_index values lie in 1..words_per_day
\* and are all different, and they are the rows of the words that
\* learner's own serve generated, whatever happened while another learner
\* was served.
C39_DailyServePerLearner ==
  \A c \in Chats :
    /\ RunRows(c) \subseteq DOMAIN user_words
    /\ Cardinality(RunRows(c)) <= run[c].wpd
    /\ \A i \in RunRows(c) :
         /\ user_words[i].user_id = c
         /\ user_words[i].served_index \in 1..run[c].wpd
    /\ \A i \in RunRows(c), j \in RunRows(c) :
         i # j => user_words[i].served_index # user_words[j].served_index
    /\ {user_words[i].served_index : i \in RunRows(c)} = run[c].made

\* the serve of the first learner threw before any row, and the second
\* learner got both words of the day
C39_Witness ==
  \E c \in Chats, d \in Chats :
    /\ run[c].threw /\ run[c].made = {} /\ run[c].to <= run[d].from
    /\ run[d].wpd = 2 /\ run[d].made = {1, 2} /\ ~run[d].threw
    /\ Cardinality(RunRows(d)) = 2

C36_RegistrationIdempotent ==
  /\ chat_ids["c1"] <= 1
  /\ notified <= 1
  /\ ((\A h \in Handlers : hpc[h] \in {"idle", "done"}) /\ (\E h \in Handlers : hpc[h] = "done"))
       => (chat_ids["c1"] = 1 /\ notified = 1)
====
